---- MODULE Spec2Model ----
\* Model of main.py (Recipe Suggester): the ingredient normalisers
\* (parse_ingredients_from_text, load_ingredients_from_file), the response
\* recovery function (extract_json_from_crew_output) and the command-line
\* run (suggest_recipes, normalize_output, the write of outputs.json).
\*
\* Strings are sequences of one-character strings.  Python values are records
\* of one shape, [t, n, s, e, d]: t the type tag, n the number (or 0/1 for a
\* bool), s the characters of a str, e the elements of a list, d the
\* (key, value) entries of a dict in insertion order.
EXTENDS Integers, Sequences, FiniteSets, TLC

VARIABLES pc, arg, obj, ret, fs, cli

vars == <<pc, arg, obj, ret, fs, cli>>

----------------------------------------------------------------------------
\* Python values

MkNone == [t |-> "none", n |-> 0, s |-> <<>>, e |-> <<>>, d |-> <<>>]

MkBool(b) == [t |-> "bool", n |-> IF b THEN 1 ELSE 0, s |-> <<>>, e |-> <<>>, d |-> <<>>]

MkInt(k) == [t |-> "int", n |-> k, s |-> <<>>, e |-> <<>>, d |-> <<>>]

MkStr(chars) == [t |-> "str", n |-> 0, s |-> chars, e |-> <<>>, d |-> <<>>]

MkList(elems) == [t |-> "list", n |-> 0, s |-> <<>>, e |-> elems, d |-> <<>>]

MkDict(entries) == [t |-> "dict", n |-> 0, s |-> <<>>, e |-> <<>>, d |-> entries]

\* An instance of some other class; its attributes are held beside it.
MkObject == [t |-> "object", n |-> 0, s |-> <<>>, e |-> <<>>, d |-> <<>>]

Entry(k, v) == [k |-> k, v |-> v]

\* The outcome of a call: a returned value or a raised exception.
Return(v) == [exc |-> "none", v |-> v]

Raise(x) == [exc |-> x, v |-> MkNone]

\* bool(v)
Truthy(v) ==
    CASE v.t = "none" -> FALSE
      [] v.t = "bool" -> v.n = 1
      [] v.t = "int" -> v.n # 0
      [] v.t = "str" -> v.s # <<>>
      [] v.t = "list" -> v.e # <<>>
      [] v.t = "dict" -> v.d # <<>>
      [] OTHER -> TRUE

----------------------------------------------------------------------------
\* str methods

Whitespace == {" ", "\n", "\t", "\r"}

Upper == <<"A", "B", "C", "D", "E", "F", "G", "H", "I", "J", "K", "L", "M",
           "N", "O", "P", "Q", "R", "S", "T", "U", "V", "W", "X", "Y", "Z">>

LowerOf == <<"a", "b", "c", "d", "e", "f", "g", "h", "i", "j", "k", "l", "m",
             "n", "o", "p", "q", "r", "s", "t", "u", "v", "w", "x", "y", "z">>

LowerChar(c) ==
    IF \E i \in 1..Len(Upper) : Upper[i] = c
    THEN LowerOf[CHOOSE i \in 1..Len(Upper) : Upper[i] = c]
    ELSE c

\* str.lower()
Lower(s) == [i \in 1..Len(s) |-> LowerChar(s[i])]

\* str.strip()
Strip(s) ==
    IF \A i \in 1..Len(s) : s[i] \in Whitespace
    THEN <<>>
    ELSE LET first == CHOOSE i \in 1..Len(s) :
                          /\ s[i] \notin Whitespace
                          /\ \A j \in 1..(i - 1) : s[j] \in Whitespace
             last == CHOOSE i \in 1..Len(s) :
                          /\ s[i] \notin Whitespace
                          /\ \A j \in (i + 1)..Len(s) : s[j] \in Whitespace
         IN SubSeq(s, first, last)

\* str.replace(old, new) for one-character old and new
Replace(s, old, new) == [i \in 1..Len(s) |-> IF s[i] = old THEN new ELSE s[i]]

\* str.split(sep) for a one-character sep: the pieces between the separators,
\* empty pieces included.
RECURSIVE Split(_, _)
Split(s, sep) ==
    IF \A i \in 1..Len(s) : s[i] # sep
    THEN <<s>>
    ELSE LET k == CHOOSE i \in 1..Len(s) :
                      /\ s[i] = sep
                      /\ \A j \in 1..(i - 1) : s[j] # sep
         IN <<SubSeq(s, 1, k - 1)>> \o Split(SubSeq(s, k + 1, Len(s)), sep)

\* str.endswith(suffix)
EndsWith(s, suffix) ==
    /\ Len(suffix) <= Len(s)
    /\ SubSeq(s, Len(s) - Len(suffix) + 1, Len(s)) = suffix

\* s[i:] starts with prefix
StartsAt(s, i, prefix) ==
    /\ i + Len(prefix) - 1 <= Len(s)
    /\ SubSeq(s, i, i + Len(prefix) - 1) = prefix

----------------------------------------------------------------------------
\* json.loads

Digits == <<"0", "1", "2", "3", "4", "5", "6", "7", "8", "9">>

IsDigit(c) == \E i \in 1..Len(Digits) : Digits[i] = c

DigitVal(c) == (CHOOSE i \in 1..Len(Digits) : Digits[i] = c) - 1

\* The result of scanning one value: ok, the value, the index after it.
Scanned(v, end) == [ok |-> TRUE, v |-> v, end |-> end]

ScanFail == [ok |-> FALSE, v |-> MkNone, end |-> 0]

\* The index of the first non-whitespace character at or after i.
RECURSIVE SkipWs(_, _)
SkipWs(s, i) ==
    IF i <= Len(s) /\ s[i] \in Whitespace THEN SkipWs(s, i + 1) ELSE i

\* A string literal whose opening quote is at i - 1: up to the next quote;
\* control characters are refused (strict mode).
ScanString(s, i) ==
    IF \A j \in i..Len(s) : s[j] # "\""
    THEN ScanFail
    ELSE LET close == CHOOSE j \in i..Len(s) :
                          /\ s[j] = "\""
                          /\ \A k \in i..(j - 1) : s[k] # "\""
             body == SubSeq(s, i, close - 1)
         IN IF \E k \in 1..Len(body) : body[k] \in {"\n", "\t", "\r", "\\"}
            THEN ScanFail
            ELSE Scanned(MkStr(body), close + 1)

\* An integer literal starting at i: 0, or a run of digits not led by 0.
RECURSIVE ScanDigits(_, _, _)
ScanDigits(s, i, acc) ==
    IF i <= Len(s) /\ IsDigit(s[i])
    THEN ScanDigits(s, i + 1, 10 * acc + DigitVal(s[i]))
    ELSE Scanned(MkInt(acc), i)

ScanNumber(s, i) ==
    IF s[i] = "0" THEN Scanned(MkInt(0), i + 1) ELSE ScanDigits(s, i, 0)

\* dict[k] = v: a repeated key keeps its place and takes the later value.
DictSet(d, k, v) ==
    IF \E i \in 1..Len(d) : d[i].k = k
    THEN [i \in 1..Len(d) |-> IF d[i].k = k THEN Entry(k, v) ELSE d[i]]
    ELSE Append(d, Entry(k, v))

RECURSIVE ScanValue(_, _), ScanElems(_, _, _), ScanPairs(_, _, _)

\* scan_once: the value that starts exactly at i.
ScanValue(s, i) ==
    IF i > Len(s) THEN ScanFail
    ELSE CASE s[i] = "\"" -> ScanString(s, i + 1)
           [] s[i] = "[" ->
                LET j == SkipWs(s, i + 1)
                IN IF j <= Len(s) /\ s[j] = "]"
                   THEN Scanned(MkList(<<>>), j + 1)
                   ELSE ScanElems(s, j, <<>>)
           [] s[i] = "{" ->
                LET j == SkipWs(s, i + 1)
                IN IF j <= Len(s) /\ s[j] = "}"
                   THEN Scanned(MkDict(<<>>), j + 1)
                   ELSE ScanPairs(s, j, <<>>)
           [] StartsAt(s, i, <<"n", "u", "l", "l">>) -> Scanned(MkNone, i + 4)
           [] StartsAt(s, i, <<"t", "r", "u", "e">>) -> Scanned(MkBool(TRUE), i + 4)
           [] StartsAt(s, i, <<"f", "a", "l", "s", "e">>) -> Scanned(MkBool(FALSE), i + 5)
           [] IsDigit(s[i]) -> ScanNumber(s, i)
           [] OTHER -> ScanFail

\* JSONArray after the first element position i.
ScanElems(s, i, acc) ==
    LET r == ScanValue(s, i)
    IN IF ~r.ok THEN ScanFail
       ELSE LET j == SkipWs(s, r.end)
            IN IF j > Len(s) THEN ScanFail
               ELSE IF s[j] = "]" THEN Scanned(MkList(Append(acc, r.v)), j + 1)
               ELSE IF s[j] = "," THEN ScanElems(s, SkipWs(s, j + 1), Append(acc, r.v))
               ELSE ScanFail

\* JSONObject at the position i of a key's opening quote.
ScanPairs(s, i, acc) ==
    IF i > Len(s) \/ s[i] # "\"" THEN ScanFail
    ELSE LET key == ScanString(s, i + 1)
         IN IF ~key.ok THEN ScanFail
            ELSE LET c == SkipWs(s, key.end)
                 IN IF c > Len(s) \/ s[c] # ":" THEN ScanFail
                    ELSE LET r == ScanValue(s, SkipWs(s, c + 1))
                         IN IF ~r.ok THEN ScanFail
                            ELSE LET j == SkipWs(s, r.end)
                                     d == DictSet(acc, key.v.s, r.v)
                                 IN IF j > Len(s) THEN ScanFail
                                    ELSE IF s[j] = "}" THEN Scanned(MkDict(d), j + 1)
                                    ELSE IF s[j] = "," THEN ScanPairs(s, SkipWs(s, j + 1), d)
                                    ELSE ScanFail

\* json.loads(s): one value between optional whitespace, nothing after it;
\* anything else raises JSONDecodeError, a ValueError.
JsonLoads(s) ==
    LET r == ScanValue(s, SkipWs(s, 1))
    IN IF r.ok /\ SkipWs(s, r.end) > Len(s)
       THEN Return(r.v)
       ELSE Raise("ValueError")

----------------------------------------------------------------------------
\* str(), repr(), iteration

RECURSIVE IntStr(_)
IntStr(k) ==
    IF k < 10 THEN <<Digits[k + 1]>>
    ELSE IntStr(k \div 10) \o <<Digits[(k % 10) + 1]>>

RECURSIVE Concat(_)
Concat(pieces) ==
    IF pieces = <<>> THEN <<>> ELSE Head(pieces) \o Concat(Tail(pieces))

\* sep.join(pieces)
RECURSIVE Join(_, _)
Join(pieces, sep) ==
    IF pieces = <<>> THEN <<>>
    ELSE IF Len(pieces) = 1 THEN Head(pieces)
    ELSE Head(pieces) \o sep \o Join(Tail(pieces), sep)

\* repr of a str: single quotes unless the text holds a single quote and no
\* double quote; the quote, the backslash and control characters escaped.
ReprStr(chars) ==
    LET q == IF (\E i \in 1..Len(chars) : chars[i] = "'")
                /\ (\A i \in 1..Len(chars) : chars[i] # "\"")
             THEN "\"" ELSE "'"
        esc(c) == CASE c = q -> <<"\\", c>>
                    [] c = "\\" -> <<"\\", "\\">>
                    [] c = "\n" -> <<"\\", "n">>
                    [] c = "\t" -> <<"\\", "t">>
                    [] c = "\r" -> <<"\\", "r">>
                    [] OTHER -> <<c>>
    IN <<q>> \o Concat([i \in 1..Len(chars) |-> esc(chars[i])]) \o <<q>>

RECURSIVE PyRepr(_)
PyRepr(v) ==
    CASE v.t = "none" -> <<"N", "o", "n", "e">>
      [] v.t = "bool" -> IF v.n = 1 THEN <<"T", "r", "u", "e">>
                         ELSE <<"F", "a", "l", "s", "e">>
      [] v.t = "int" -> IntStr(v.n)
      [] v.t = "str" -> ReprStr(v.s)
      [] v.t = "list" ->
            <<"[">> \o Join([i \in 1..Len(v.e) |-> PyRepr(v.e[i])], <<",", " ">>) \o <<"]">>
      [] v.t = "dict" ->
            <<"{">> \o Join([i \in 1..Len(v.d) |->
                               ReprStr(v.d[i].k) \o <<":", " ">> \o PyRepr(v.d[i].v)],
                            <<",", " ">>) \o <<"}">>
      [] OTHER -> <<"<", "o", "b", "j", "e", "c", "t", ">">>

\* str(v) for the builtin types
PyStr(v) == IF v.t = "str" THEN v.s ELSE PyRepr(v)

\* iter(v): the elements of a list, the keys of a dict, the characters of a
\* str; anything else is not iterable.
Iterable(v) == v.t \in {"list", "dict", "str"}

IterItems(v) ==
    CASE v.t = "list" -> v.e
      [] v.t = "dict" -> [i \in 1..Len(v.d) |-> MkStr(v.d[i].k)]
      [] v.t = "str" -> [i \in 1..Len(v.s) |-> MkStr(<<v.s[i]>>)]
      [] OTHER -> <<>>

\* [x for x in seq if Keep(x)]
RECURSIVE SelectTruthy(_)
SelectTruthy(seq) ==
    IF seq = <<>> THEN <<>>
    ELSE IF Truthy(Head(seq)) THEN <<Head(seq)>> \o SelectTruthy(Tail(seq))
    ELSE SelectTruthy(Tail(seq))

----------------------------------------------------------------------------
\* parse_ingredients_from_text

\* for ch in ['\n', ';', '|']: text = text.replace(ch, ',')
ReplaceSeparators(chars) ==
    Replace(Replace(Replace(chars, "\n", ","), ";", ","), "|", ",")

\* [i.strip().lower() for i in text.split(',') if i.strip()]
RECURSIVE StripLowerPieces(_)
StripLowerPieces(pieces) ==
    IF pieces = <<>> THEN <<>>
    ELSE IF Strip(Head(pieces)) # <<>>
         THEN <<Lower(Strip(Head(pieces)))>> \o StripLowerPieces(Tail(pieces))
         ELSE StripLowerPieces(Tail(pieces))

\* The seen/deduped loop: items in order, each kept the first time only.
RECURSIVE DedupLoop(_, _, _)
DedupLoop(items, seen, deduped) ==
    IF items = <<>> THEN deduped
    ELSE IF Head(items) \notin seen
         THEN DedupLoop(Tail(items), seen \cup {Head(items)}, Append(deduped, Head(items)))
         ELSE DedupLoop(Tail(items), seen, deduped)

DedupKeepAll(items) == items

Dedup(items) == DedupLoop(items, {}, <<>>)

StrList(strs) == MkList([i \in 1..Len(strs) |-> MkStr(strs[i])])

parse_ingredients_from_text(text) ==
    IF ~Truthy(text) THEN MkList(<<>>)
    ELSE StrList(Dedup(StripLowerPieces(Split(ReplaceSeparators(text.s), ","))))

----------------------------------------------------------------------------
\* load_ingredients_from_file

K_ingredients == <<"i", "n", "g", "r", "e", "d", "i", "e", "n", "t", "s">>

K_items == <<"i", "t", "e", "m", "s">>

K_list == <<"l", "i", "s", "t">>

DotJson == <<".", "j", "s", "o", "n">>

HasKey(data, k) == \E i \in 1..Len(data.d) : data.d[i].k = k

\* dict.get(k): the value, or None when the key is absent
DictGet(data, k) ==
    IF HasKey(data, k)
    THEN data.d[CHOOSE i \in 1..Len(data.d) : data.d[i].k = k].v
    ELSE MkNone

\* a or b
PyOr(a, b) == IF Truthy(a) THEN a ELSE b

SelectFirstPresent(data) ==
    IF HasKey(data, K_ingredients) THEN DictGet(data, K_ingredients)
    ELSE IF HasKey(data, K_items) THEN DictGet(data, K_items)
    ELSE IF HasKey(data, K_list) THEN DictGet(data, K_list)
    ELSE IF data.d # <<>> THEN data.d[1].v
    ELSE MkList(<<>>)

\* (data.get('ingredients') or data.get('items') or data.get('list')
\*  or list(data.values())[0]) if data else []
SelectIngredients(data) ==
    IF Truthy(data)
    THEN PyOr(DictGet(data, K_ingredients),
              PyOr(DictGet(data, K_items),
                   PyOr(DictGet(data, K_list), data.d[1].v)))
    ELSE MkList(<<>>)

\* [str(item).strip().lower() for item in ingredients if item]
NormalizeItems(ingredients) ==
    IF ~Iterable(ingredients) THEN Raise("TypeError")
    ELSE LET kept == SelectTruthy(IterItems(ingredients))
         IN Return(StrList([i \in 1..Len(kept) |-> Lower(Strip(PyStr(kept[i])))]))

\* The branches on the shape of the parsed data.
IngredientsOfJsonLenient(data) ==
    IF data.t = "list" THEN NormalizeItems(data)
    ELSE IF data.t = "dict" THEN NormalizeItems(SelectIngredients(data))
    ELSE Return(MkList(<<>>))

IngredientsOfJson(data) ==
    IF data.t = "list" THEN NormalizeItems(data)
    ELSE IF data.t = "dict" THEN NormalizeItems(SelectIngredients(data))
    ELSE Raise("ValueError")

\* files: the one file of the run, present or not, with its text
load_ingredients_from_file(path, files) ==
    IF ~files.exists THEN Raise("FileNotFoundError")
    ELSE IF EndsWith(Lower(path), DotJson)
    THEN LET data == JsonLoads(files.text)
         IN IF data.exc # "none" THEN data ELSE IngredientsOfJson(data.v)
    ELSE Return(parse_ingredients_from_text(MkStr(files.text)))

----------------------------------------------------------------------------
\* json.dump(obj, f, ensure_ascii=False, indent=2)

\* Values the encoder accepts: the builtin types, all the way down.
RECURSIVE Serializable(_)
Serializable(v) ==
    CASE v.t = "list" -> \A i \in 1..Len(v.e) : Serializable(v.e[i])
      [] v.t = "dict" -> \A i \in 1..Len(v.d) : Serializable(v.d[i].v)
      [] v.t = "object" -> FALSE
      [] OTHER -> TRUE

JsonStr(chars) ==
    LET esc(c) == CASE c = "\"" -> <<"\\", "\"">>
                    [] c = "\\" -> <<"\\", "\\">>
                    [] c = "\n" -> <<"\\", "n">>
                    [] c = "\t" -> <<"\\", "t">>
                    [] c = "\r" -> <<"\\", "r">>
                    [] OTHER -> <<c>>
    IN <<"\"">> \o Concat([i \in 1..Len(chars) |-> esc(chars[i])]) \o <<"\"">>

\* A newline and the indentation of a nesting level, two spaces a level.
NewlineIndent(level) == <<"\n">> \o [i \in 1..(2 * level) |-> " "]

RECURSIVE JsonText(_, _)
JsonText(v, level) ==
    CASE v.t = "none" -> <<"n", "u", "l", "l">>
      [] v.t = "bool" -> IF v.n = 1 THEN <<"t", "r", "u", "e">>
                         ELSE <<"f", "a", "l", "s", "e">>
      [] v.t = "int" -> IntStr(v.n)
      [] v.t = "str" -> JsonStr(v.s)
      [] v.t = "list" ->
            IF v.e = <<>> THEN <<"[", "]">>
            ELSE <<"[">> \o NewlineIndent(level + 1)
                 \o Join([i \in 1..Len(v.e) |-> JsonText(v.e[i], level + 1)],
                         <<",">> \o NewlineIndent(level + 1))
                 \o NewlineIndent(level) \o <<"]">>
      [] v.t = "dict" ->
            IF v.d = <<>> THEN <<"{", "}">>
            ELSE <<"{">> \o NewlineIndent(level + 1)
                 \o Join([i \in 1..Len(v.d) |->
                            JsonStr(v.d[i].k) \o <<":", " ">> \o JsonText(v.d[i].v, level + 1)],
                         <<",">> \o NewlineIndent(level + 1))
                 \o NewlineIndent(level) \o <<"}">>
      [] OTHER -> <<>>

\* The text written, or TypeError for a value the encoder refuses.
JsonDump(v) ==
    IF Serializable(v) THEN Return(MkStr(JsonText(v, 0))) ELSE Raise("TypeError")

----------------------------------------------------------------------------
\* Objects of other classes: what reading each attribute does

Absent == [kind |-> "absent", v |-> MkNone]

Raises == [kind |-> "raises", v |-> MkNone]

Yields(v) == [kind |-> "value", v |-> v]

AccNames == <<"to_json", "to_dict", "dict", "data", "content", "text">>

NameChars(name) ==
    CASE name = "to_json" -> <<"t", "o", "_", "j", "s", "o", "n">>
      [] name = "to_dict" -> <<"t", "o", "_", "d", "i", "c", "t">>
      [] name = "dict" -> <<"d", "i", "c", "t">>
      [] name = "data" -> <<"d", "a", "t", "a">>
      [] name = "content" -> <<"c", "o", "n", "t", "e", "n", "t">>
      [] name = "text" -> <<"t", "e", "x", "t">>

NoAccessors == [name \in {AccNames[i] : i \in 1..Len(AccNames)} |-> Absent]

\* str(type(v)) is "<class 'name'>"
ClassOf(v) ==
    CASE v.t = "none" -> <<"N", "o", "n", "e", "T", "y", "p", "e">>
      [] v.t = "bool" -> <<"b", "o", "o", "l">>
      [] v.t = "int" -> <<"i", "n", "t">>
      [] v.t = "str" -> <<"s", "t", "r">>
      [] v.t = "list" -> <<"l", "i", "s", "t">>
      [] v.t = "dict" -> <<"d", "i", "c", "t">>
      [] OTHER -> <<"C", "r", "e", "w", "O", "u", "t", "p", "u", "t">>

\* The attributes of a value of a builtin type: none of the accessors, a
\* repr and a str that succeed, and no _name_ on its type.
BuiltinAttrs(v) ==
    [acc |-> NoAccessors, repr |-> Yields(MkStr(PyRepr(v))), str |-> Yields(MkStr(PyStr(v))),
     cls |-> ClassOf(v), cls_name_ |-> Absent, raw |-> Absent]

NoObject == BuiltinAttrs(MkNone)

\* hasattr(o, name): False only for AttributeError
HasAttr(attrs, name) == attrs.acc[name].kind # "absent"

\* o.name for an attribute, o.name() for a method
GetAttr(attrs, name) ==
    CASE attrs.acc[name].kind = "absent" -> Raise("AttributeError")
      [] attrs.acc[name].kind = "raises" -> Raise("Exception")
      [] OTHER -> Return(attrs.acc[name].v)

----------------------------------------------------------------------------
\* extract_json_from_crew_output

K_raw_text == <<"r", "a", "w", "_", "t", "e", "x", "t">>

K_raw_text_from_ == <<"r", "a", "w", "_", "t", "e", "x", "t", "_", "f", "r", "o", "m", "_">>

K_raw_repr == <<"r", "a", "w", "_", "r", "e", "p", "r">>

K_raw_str == <<"r", "a", "w", "_", "s", "t", "r">>

K_type == <<"t", "y", "p", "e">>

NoMatch == [found |-> FALSE, group |-> <<>>]

\* re.search(r'(\[.\]|\{.\})', s, re.S): the leftmost three characters that
\* are a bracket pair or a brace pair around any one character.
SearchBracketedOne(s) ==
    LET Hit(i) == \/ s[i] = "[" /\ s[i + 2] = "]"
                  \/ s[i] = "{" /\ s[i + 2] = "}"
    IN IF \E i \in 1..(Len(s) - 2) : Hit(i)
       THEN LET i == CHOOSE i \in 1..(Len(s) - 2) :
                         Hit(i) /\ \A j \in 1..(i - 1) : ~Hit(j)
            IN [found |-> TRUE, group |-> SubSeq(s, i, i + 2)]
       ELSE NoMatch

\* The try_methods table: what each entry's lambda evaluates to.
CallAccessor(name, attrs) ==
    CASE name = "to_json" ->
            LET r == GetAttr(attrs, name)
            IN IF r.exc # "none" THEN r
               ELSE IF r.v.t = "str" THEN JsonLoads(r.v.s)
               ELSE Raise("TypeError")
      [] name = "to_dict" -> GetAttr(attrs, name)
      [] OTHER -> IF HasAttr(attrs, name) THEN GetAttr(attrs, name) ELSE Return(MkNone)

Continue == [done |-> FALSE, v |-> MkNone]

Done(v) == [done |-> TRUE, v |-> v]

\* One turn of the loop over try_methods: a value to return, or go on.
ProbeOne(name, attrs) ==
    LET val == CallAccessor(name, attrs)
    IN IF val.exc # "none" THEN Continue
       ELSE IF val.v.t = "none" THEN Continue
       ELSE IF val.v.t = "str"
            THEN LET direct == JsonLoads(val.v.s)
                     m == SearchBracketedOne(val.v.s)
                 IN IF direct.exc = "none" THEN Done(direct.v)
                    ELSE IF m.found
                         THEN IF JsonLoads(m.group).exc = "none"
                              THEN Done(JsonLoads(m.group).v)
                              ELSE Continue
                         ELSE Done(MkDict(<<Entry(K_raw_text_from_ \o NameChars(name), val.v)>>))
       ELSE IF val.v.t \in {"dict", "list"} THEN Done(val.v)
       ELSE Continue

RECURSIVE ProbeFrom(_, _)
ProbeFrom(i, attrs) ==
    IF i > Len(AccNames) THEN Continue
    ELSE IF ProbeOne(AccNames[i], attrs).done THEN ProbeOne(AccNames[i], attrs)
    ELSE ProbeFrom(i + 1, attrs)

\* Step 4: the debug structure.  The first display needs repr(obj) and
\* type(obj)._name_; when either raises, the second needs str(obj), whose
\* exception nothing catches.
DebugStructure(attrs) ==
    IF attrs.repr.kind = "value" /\ attrs.cls_name_.kind = "value"
    THEN Return(MkDict(<<Entry(K_raw_repr, attrs.repr.v), Entry(K_type, attrs.cls_name_.v)>>))
    ELSE IF attrs.str.kind = "value"
    THEN Return(MkDict(<<Entry(K_raw_str, attrs.str.v),
                         Entry(K_type, MkStr(<<"<", "c", "l", "a", "s", "s", " ", "'">> \o attrs.cls \o <<"'", ">">>))>>))
    ELSE Raise("Exception")

\* Step 2: a str
RecoverFromStr(chars) ==
    LET s == Strip(chars)
        direct == JsonLoads(s)
        m == SearchBracketedOne(s)
    IN IF direct.exc = "none" THEN direct
       ELSE IF m.found /\ JsonLoads(m.group).exc = "none" THEN JsonLoads(m.group)
       ELSE Return(MkDict(<<Entry(K_raw_text, MkStr(s))>>))

extract_json_from_crew_output(o, attrs) ==
    IF o.t \in {"dict", "list"} THEN Return(o)
    ELSE IF o.t = "str" THEN RecoverFromStr(o.s)
    ELSE IF ProbeFrom(1, attrs).done THEN Return(ProbeFrom(1, attrs).v)
    ELSE DebugStructure(attrs)

----------------------------------------------------------------------------
\* Bounds and inputs

MaxTextLen == 5

MaxItems == 2

MaxKeys == 2

BoundedSeqs(S, n) == UNION {[1..k -> S] : k \in 0..n}

\* Inline ingredient texts: both cases, blanks and the four separators.
TextChars == {"a", "A", "b", " ", ",", "\n", ";", "|"}

TextInputs(n) == {MkNone} \cup {MkStr(s) : s \in BoundedSeqs(TextChars, n)}

\* The states of the variables an operation does not use.
NoRet == Return(MkNone)

NoFiles == [exists |-> FALSE, text |-> <<>>]

NoOutputs == [written |-> FALSE, complete |-> FALSE, text |-> <<>>]

\* The state of a run of the command line before its first statement.
NoCli == [mode |-> "none", ingredients |-> MkNone, prompt |-> <<>>,
          taskBuilt |-> FALSE, kickoffCalled |-> FALSE, kickoffReturned |-> FALSE,
          result |-> MkNone, suggestions |-> MkNone, normalized |-> MkNone,
          outputs |-> NoOutputs, printed |-> FALSE]

----------------------------------------------------------------------------
\* parse_ingredients_from_text applied to a text

InitText ==
    /\ pc = "text_call"
    /\ arg \in TextInputs(MaxTextLen)
    /\ obj = NoObject
    /\ ret = NoRet
    /\ fs = NoFiles
    /\ cli = NoCli

ParseText ==
    /\ pc = "text_call"
    /\ ret' = Return(parse_ingredients_from_text(arg))
    /\ pc' = "text_done"
    /\ UNCHANGED <<arg, obj, fs, cli>>

NextText == ParseText

SpecText == InitText /\ [][NextText]_vars

----------------------------------------------------------------------------
\* C3

Separators == {",", "\n", ";", "|"}

IsUpperChar(c) == \E i \in 1..Len(Upper) : Upper[i] = c

\* s[a..b] is an entry of the text: a longest stretch free of separators.
IsField(s, a, b) ==
    /\ a <= b
    /\ \A k \in a..b : s[k] \notin Separators
    /\ a = 1 \/ s[a - 1] \in Separators
    /\ b = Len(s) \/ s[b + 1] \in Separators

\* What an entry reads as: without the blanks around it, in lower case.
FieldReads(s, a, b) == Lower(Strip(SubSeq(s, a, b)))

\* Where the first entry that reads as x starts.
FirstStart(s, x) ==
    CHOOSE a \in 1..Len(s) :
        /\ \E b \in a..Len(s) : IsField(s, a, b) /\ FieldReads(s, a, b) = x
        /\ \A a2 \in 1..(a - 1) : \A b2 \in a2..Len(s) :
               ~(IsField(s, a2, b2) /\ FieldReads(s, a2, b2) = x)

LowerTrimmedNonEmpty(x) ==
    /\ x # <<>>
    /\ x[1] \notin Whitespace
    /\ x[Len(x)] \notin Whitespace
    /\ \A k \in 1..Len(x) : ~IsUpperChar(x[k])

\* C3: for every string s, parse_ingredients_from_text(s) returns a list of
\* strings, each lowercase, trimmed and non-empty, none occurring twice; the
\* elements are exactly what the entries of s read as, in the order in which
\* each first occurs in s.
C3_NormalizeText ==
    (pc = "text_done" /\ arg.t = "str") =>
        LET s == arg.s
            r == ret.v.e
        IN /\ ret.exc = "none"
           /\ ret.v.t = "list"
           /\ \A i \in 1..Len(r) : r[i].t = "str" /\ LowerTrimmedNonEmpty(r[i].s)
           /\ \A i, j \in 1..Len(r) : i # j => r[i].s # r[j].s
           /\ \A i \in 1..Len(r) : \E a, b \in 1..Len(s) :
                  IsField(s, a, b) /\ FieldReads(s, a, b) = r[i].s
           /\ \A a, b \in 1..Len(s) :
                  (IsField(s, a, b) /\ FieldReads(s, a, b) # <<>>) =>
                      \E i \in 1..Len(r) : r[i].s = FieldReads(s, a, b)
           /\ \A i, j \in 1..Len(r) :
                  i < j => FirstStart(s, r[i].s) < FirstStart(s, r[j].s)

\* A text whose entries repeat in another case, after the call: "A|a" reads
\* as the one ingredient "a".
C3_Witness ==
    /\ pc = "text_done"
    /\ arg.t = "str"
    /\ Len(ret.v.e) = 1
    /\ \E a, b, a2, b2 \in 1..Len(arg.s) :
           /\ a < a2
           /\ IsField(arg.s, a, b) /\ IsField(arg.s, a2, b2)
           /\ SubSeq(arg.s, a, b) # SubSeq(arg.s, a2, b2)
           /\ FieldReads(arg.s, a, b) = FieldReads(arg.s, a2, b2)
           /\ FieldReads(arg.s, a, b) # <<>>

----------------------------------------------------------------------------
\* load_ingredients_from_file applied to a path

Paths == {<<"a", ".", "j", "s", "o", "n">>,
          <<"a", ".", "J", "S", "O", "N">>,
          <<"a", ".", "t", "x", "t">>}

JsonPaths == {<<"a", ".", "j", "s", "o", "n">>, <<"a", ".", "J", "S", "O", "N">>}

\* Elements of a JSON list of ingredients: a padded capitalised name, a
\* blank string, and the falsy "", 0 and null beside the number 7.
ItemValues == {MkStr(<<" ", "E", "g">>), MkStr(<<" ">>), MkStr(<<>>),
               MkInt(0), MkInt(7), MkNone}

ListData(n) == {MkList(e) : e \in BoundedSeqs(ItemValues, n)}

DictKeys == {K_ingredients, K_items, K_list, <<"x">>}

DictValues == {MkList(<<>>), MkList(<<MkStr(<<"a">>)>>), MkList(<<MkStr(<<"B">>)>>),
               MkNone, MkStr(<<"c", " ">>)}

DictData(n) ==
    {MkDict([i \in 1..Len(ks) |-> Entry(ks[i], vs[i])]) :
        <<ks, vs>> \in {p \in BoundedSeqs(DictKeys, n) \X BoundedSeqs(DictValues, n) :
                           /\ Len(p[1]) = Len(p[2])
                           /\ \A i, j \in 1..Len(p[1]) : i # j => p[1][i] # p[1][j]}}

ScalarData == {MkNone, MkBool(TRUE), MkInt(5), MkStr(<<"a">>)}

\* Texts that are no JSON document.
UnparsableTexts == {<<>>, <<"[">>, <<"a", ",", "B">>, <<"[", "1", ",", "]">>}

FileTexts(items, keys) ==
    {JsonText(v, 0) : v \in ListData(items) \cup DictData(keys) \cup ScalarData} \cup UnparsableTexts

InitLoad ==
    /\ pc = "load_call"
    /\ \E p \in Paths : arg = MkStr(p)
    /\ \/ fs = NoFiles
       \/ \E x \in FileTexts(MaxItems, MaxKeys) : fs = [exists |-> TRUE, text |-> x]
    /\ obj = NoObject
    /\ ret = NoRet
    /\ cli = NoCli

LoadFile ==
    /\ pc = "load_call"
    /\ ret' = load_ingredients_from_file(arg.s, fs)
    /\ pc' = "load_done"
    /\ UNCHANGED <<arg, obj, fs, cli>>

NextLoad == LoadFile

SpecLoad == InitLoad /\ [][NextLoad]_vars

\* The file of a finished load of a .json path holds the document v.
LoadedJson(v) ==
    /\ pc = "load_done"
    /\ arg.s \in JsonPaths
    /\ fs.exists
    /\ fs.text = JsonText(v, 0)

LoadedUnparsable ==
    /\ pc = "load_done"
    /\ arg.s \in JsonPaths
    /\ fs.exists
    /\ fs.text \in UnparsableTexts

\* C6 as stated: a .json file that is not JSON, or whose top-level value is
\* a scalar or the empty mapping, makes load_ingredients_from_file raise
\* ValueError.
C6_AsStated ==
    (LoadedUnparsable \/ \E v \in ScalarData \cup {MkDict(<<>>)} : LoadedJson(v))
        => ret.exc = "ValueError"

\* C6 amended: a .json file that is not JSON, or whose top-level value is a
\* scalar, makes load_ingredients_from_file raise ValueError; the empty
\* mapping raises nothing and gives the empty list.
C6_LoadRejects ==
    /\ (LoadedUnparsable \/ \E v \in ScalarData : LoadedJson(v)) => ret.exc = "ValueError"
    /\ LoadedJson(MkDict(<<>>)) => ret = Return(MkList(<<>>))

C6_Witness == LoadedJson(MkInt(5)) /\ ret.exc = "ValueError"

\* A finished load of a .json path whose file holds a non-empty JSON mapping.
LoadedMapping ==
    /\ pc = "load_done"
    /\ arg.s \in JsonPaths
    /\ fs.exists
    /\ JsonLoads(fs.text).exc = "none"
    /\ JsonLoads(fs.text).v.t = "dict"
    /\ JsonLoads(fs.text).v.d # <<>>

\* The value under the first of ingredients, items, list that Has picks;
\* the first value of the mapping when Has picks none.
ChosenValue(data, Has(_)) ==
    IF Has(K_ingredients) THEN DictGet(data, K_ingredients)
    ELSE IF Has(K_items) THEN DictGet(data, K_items)
    ELSE IF Has(K_list) THEN DictGet(data, K_list)
    ELSE data.d[1].v

\* C7 as stated: from a JSON mapping the ingredients are the value of the
\* first of the keys ingredients, items, list present in it, whatever that
\* value; the first value of the mapping only when none of the three exists.
C7_AsStated ==
    LoadedMapping =>
        LET data == JsonLoads(fs.text).v
            Present(k) == HasKey(data, k)
        IN ret = NormalizeItems(ChosenValue(data, Present))

\* C7 amended: from a non-empty JSON mapping the ingredients are the value
\* of the first of the keys ingredients, items, list whose value is truthy
\* (present, and not null, empty, zero or false); the first value of the
\* mapping when none of the three has a truthy value.
C7_FirstTruthyKey ==
    LoadedMapping =>
        LET data == JsonLoads(fs.text).v
            Usable(k) == HasKey(data, k) /\ Truthy(DictGet(data, k))
        IN ret = NormalizeItems(ChosenValue(data, Usable))

\* {"ingredients": [], "items": ["a"]} loaded: the empty value is passed over.
C7_Witness ==
    /\ LoadedJson(MkDict(<<Entry(K_ingredients, MkList(<<>>)),
                           Entry(K_items, MkList(<<MkStr(<<"a">>)>>))>>))
    /\ ret = Return(MkList(<<MkStr(<<"a">>)>>))

\* C10: every element of the list load_ingredients_from_file returns for a
\* .json file is a non-empty, trimmed, lowercase string.
C10_LoadedItemsNormalized ==
    (pc = "load_done" /\ arg.s \in JsonPaths /\ ret.exc = "none") =>
        \A i \in 1..Len(ret.v.e) :
            ret.v.e[i].t = "str" /\ LowerTrimmedNonEmpty(ret.v.e[i].s)

----------------------------------------------------------------------------
\* extract_json_from_crew_output applied to a value

MaxStrLen == 4

MaxAccessors == 2

\* Model responses: brackets, braces, quotes, a digit, a letter, a blank,
\* a comma and a colon.
JsonChars == {"[", "]", "{", "}", "\"", "1", "a", " ", ",", ":"}

StrInputs(n) == {MkStr(s) : s \in BoundedSeqs(JsonChars, n)}

StructInputs == {MkList(<<>>), MkList(<<MkInt(1)>>), MkDict(<<>>),
                 MkDict(<<Entry(<<"a">>, MkInt(1))>>)}

ScalarInputs == {MkNone, MkInt(5), MkBool(TRUE)}

\* What an accessor of a response object may hand back.
AccValues == {MkNone, MkInt(7), MkObject,
              MkStr(<<"a">>), MkStr(<<"1">>), MkStr(<<"[", "1", "]">>),
              MkStr(<<"a", "[", "1", "]">>), MkStr(<<"a", "[", "a", "]">>),
              MkList(<<MkInt(1)>>), MkDict(<<Entry(<<"a">>, MkInt(1))>>)}

AccOutcomes == {Raises} \cup {Yields(v) : v \in AccValues}

AccNameSet == {AccNames[i] : i \in 1..Len(AccNames)}

\* Accessor tables with at most n accessors defined.
AccTables(n) ==
    UNION {{[name \in AccNameSet |-> IF name \in S THEN f[name] ELSE Absent] :
               f \in [S -> AccOutcomes]} :
           S \in {S \in SUBSET AccNameSet : Cardinality(S) <= n}}

ObjectAttrs(most) ==
    {[acc |-> a, repr |-> r, str |-> s, cls |-> <<"C", "r", "e", "w", "O", "u", "t", "p", "u", "t">>, cls_name_ |-> n, raw |-> Absent] :
        a \in AccTables(most),
        r \in {Raises, Yields(MkStr(<<"<", "o", ">">>))},
        s \in {Raises, Yields(MkStr(<<"o">>))},
        n \in {Absent, Yields(MkStr(<<"C", "r", "e", "w", "O", "u", "t", "p", "u", "t">>))}}

InitRecover ==
    /\ pc = "recover_call"
    /\ \/ /\ arg \in StrInputs(MaxStrLen) \cup StructInputs \cup ScalarInputs
          /\ obj = BuiltinAttrs(arg)
       \/ /\ arg = MkObject
          /\ obj \in ObjectAttrs(MaxAccessors)
    /\ ret = NoRet
    /\ fs = NoFiles
    /\ cli = NoCli

Recover ==
    /\ pc = "recover_call"
    /\ ret' = extract_json_from_crew_output(arg, obj)
    /\ pc' = "recover_done"
    /\ UNCHANGED <<arg, obj, fs, cli>>

NextRecover == Recover

SpecRecover == InitRecover /\ [][NextRecover]_vars

\* C1: extract_json_from_crew_output never raises: whatever the value, the
\* call ends by returning.
C1_NeverRaises == pc = "recover_done" => ret.exc = "none"

\* s[a..b] is a span from an opening bracket or brace to its closing one
\* that is valid JSON by itself.
IsJsonSpan(s, a, b) ==
    /\ a < b
    /\ \/ s[a] = "[" /\ s[b] = "]"
       \/ s[a] = "{" /\ s[b] = "}"
    /\ JsonLoads(SubSeq(s, a, b)).exc = "none"

\* C2: for a string that is not JSON as a whole but holds a span [ ... ] or
\* { ... } that is valid JSON, the call returns the value of such a span.
C2_SubstringExtraction ==
    (/\ pc = "recover_done"
     /\ arg.t = "str"
     /\ JsonLoads(arg.s).exc # "none"
     /\ \E a, b \in 1..Len(arg.s) : IsJsonSpan(arg.s, a, b))
        => \E a, b \in 1..Len(arg.s) :
               /\ IsJsonSpan(arg.s, a, b)
               /\ ret = JsonLoads(SubSeq(arg.s, a, b))

\* C4: the value returned is always a list or a mapping, never a scalar.
C4_ListOrMapping ==
    (pc = "recover_done" /\ ret.exc = "none") => ret.v.t \in {"list", "dict"}

\* C9: a value that is no list, mapping or string, has none of the
\* accessors and whose repr succeeds comes back as
\* {"raw_repr": repr, "type": type name}; the str form is returned only
\* when repr fails.
C9_DiagnosticFallback ==
    (/\ pc = "recover_done"
     /\ arg.t \notin {"list", "dict", "str"}
     /\ obj.acc = NoAccessors
     /\ obj.repr.kind = "value")
        => /\ ret.exc = "none"
           /\ ret.v.t = "dict"
           /\ Len(ret.v.d) = 2
           /\ ret.v.d[1] = Entry(K_raw_repr, obj.repr.v)
           /\ ret.v.d[2].k = K_type

----------------------------------------------------------------------------
\* suggest_recipes, normalize_output and the command line

K_raw == <<"r", "a", "w">>

\* A greedy match from an opener at i to the last closer after it.
GreedyAt(s, i, open, close) ==
    s[i] = open /\ \E j \in (i + 1)..Len(s) : s[j] = close

LastOf(s, close) ==
    CHOOSE j \in 1..Len(s) : s[j] = close /\ \A k \in (j + 1)..Len(s) : s[k] # close

\* re.search(r'(\[.*\])', text, re.S)
SearchBracketed(s) ==
    IF \E i \in 1..Len(s) : GreedyAt(s, i, "[", "]")
    THEN LET i == CHOOSE i \in 1..Len(s) :
                      GreedyAt(s, i, "[", "]") /\ \A j \in 1..(i - 1) : ~GreedyAt(s, j, "[", "]")
         IN [found |-> TRUE, group |-> SubSeq(s, i, LastOf(s, "]"))]
    ELSE NoMatch

\* re.search(r'(\[.*\]|\{.*\})', obj, re.S)
SearchBracketedOrBraced(s) ==
    LET Hit(i) == GreedyAt(s, i, "[", "]") \/ GreedyAt(s, i, "{", "}")
    IN IF \E i \in 1..Len(s) : Hit(i)
       THEN LET i == CHOOSE i \in 1..Len(s) : Hit(i) /\ \A j \in 1..(i - 1) : ~Hit(j)
            IN [found |-> TRUE,
                group |-> IF GreedyAt(s, i, "[", "]")
                          THEN SubSeq(s, i, LastOf(s, "]"))
                          ELSE SubSeq(s, i, LastOf(s, "}"))]
       ELSE NoMatch

\* if not ingredients
NoIngredientsIfNone(ingredients) == ingredients.t = "none"

NoIngredients(ingredients) == ~Truthy(ingredients)

\* ", ".join(ingredients), the text the task description is built around
IngredientText(ingredients) ==
    Join([i \in 1..Len(ingredients.e) |-> ingredients.e[i].s], <<",", " ">>)

\* suggest_recipes from the return of crew.kickoff() on.  The last line of the
\* function reads return {"raw": result}7; the stray digit is left out here.
ParseKickoffResult(result) ==
    IF result.t = "str"
    THEN LET direct == JsonLoads(result.s)
             m == SearchBracketed(result.s)
         IN IF direct.exc = "none" THEN direct
            ELSE IF m.found /\ JsonLoads(m.group).exc = "none" THEN JsonLoads(m.group)
            ELSE Return(MkDict(<<Entry(K_raw, result)>>))
    ELSE Return(result)

\* normalize_output for a value of a builtin type
NormalizeBuiltin(v) ==
    IF v.t \in {"dict", "list"} THEN Return(v)
    ELSE IF v.t = "str"
    THEN LET direct == JsonLoads(v.s)
             m == SearchBracketedOrBraced(v.s)
         IN IF direct.exc = "none" THEN direct
            ELSE IF m.found THEN JsonLoads(m.group)
            ELSE Return(MkDict(<<Entry(K_raw_text, v)>>))
    ELSE Return(MkDict(<<Entry(K_raw_repr, MkStr(PyRepr(v)))>>))

\* normalize_output: an object with a raw attribute is normalised through it
normalize_output(o, attrs) ==
    IF o.t # "object" THEN NormalizeBuiltin(o)
    ELSE CASE attrs.raw.kind = "raises" -> Raise("Exception")
           [] attrs.raw.kind = "value" -> NormalizeBuiltin(attrs.raw.v)
           [] OTHER -> IF attrs.repr.kind = "value"
                       THEN Return(MkDict(<<Entry(K_raw_repr, attrs.repr.v)>>))
                       ELSE Raise("Exception")

MaxCliTextLen == 2

MaxResponseLen == 3

CliTexts(n) == {MkStr(s) : s \in BoundedSeqs({"a", ",", " "}, n)}

\* Ingredient files of a run: lists and mappings, empty and not, a scalar.
CliFileTexts == {<<"[", "]">>, <<"{", "}">>, <<"[", "\"", " ", "\"", "]">>, <<"[", "0", ",", " ", "\"", "\"", "]">>, <<"5">>, <<"{", "\"", "i", "t", "e", "m", "s", "\"", ":", " ", "[", "\"", "E", "g", "g", "\"", ",", " ", "\"", "a", "\"", "]", "}">>}

ResponseChars == {"[", "]", "{", "}", "1", "a"}

ResponseTexts ==
    BoundedSeqs(ResponseChars, MaxResponseLen)
        \cup {<<"\"", "[", "a", "]", "\"">>, <<"a", " ", "[", "1", "]", " ", "a", " ", "[", "1">>}

StructResponses == {MkList(<<>>), MkList(<<MkDict(<<Entry(<<"t">>, MkStr(<<"a">>))>>)>>),
                    MkDict(<<>>), MkList(<<MkObject>>), MkNone}

\* A response object, with or without a raw attribute.
ResponseObjects ==
    {[acc |-> NoAccessors, repr |-> r, str |-> r, cls |-> <<"C", "r", "e", "w", "O", "u", "t", "p", "u", "t">>, cls_name_ |-> Absent, raw |-> w] :
        r \in {Raises, Yields(MkStr(<<"<", "o", ">">>))},
        w \in {Absent, Raises} \cup {Yields(MkStr(s)) : s \in ResponseTexts}
                \cup {Yields(v) : v \in StructResponses}}

InitCli ==
    /\ pc = "main"
    /\ \/ /\ arg \in CliTexts(MaxCliTextLen)
          /\ fs = NoFiles
          /\ cli = [NoCli EXCEPT !.mode = "ingredients"]
       \/ /\ \E p \in Paths : arg = MkStr(p)
          /\ \/ fs = NoFiles
             \/ \E x \in CliFileTexts : fs = [exists |-> TRUE, text |-> x]
          /\ cli = [NoCli EXCEPT !.mode = "file"]
    /\ obj = NoObject
    /\ ret = NoRet

\* if args.file: ... else: ...; an exception ends the run
ReadIngredients ==
    /\ pc = "main"
    /\ LET r == IF cli.mode = "file"
                THEN load_ingredients_from_file(arg.s, fs)
                ELSE Return(parse_ingredients_from_text(arg))
       IN /\ ret' = r
          /\ IF r.exc = "none"
             THEN pc' = "parsed" /\ cli' = [cli EXCEPT !.ingredients = r.v]
             ELSE pc' = "aborted" /\ UNCHANGED cli
    /\ UNCHANGED <<arg, obj, fs>>

\* suggest_recipes up to crew.kickoff(): the guard, the task, the call
SuggestRecipes ==
    /\ pc = "parsed"
    /\ IF NoIngredients(cli.ingredients)
       THEN /\ ret' = Raise("ValueError")
            /\ pc' = "aborted"
            /\ UNCHANGED cli
       ELSE /\ ret' = NoRet
            /\ pc' = "kickoff"
            /\ cli' = [cli EXCEPT !.prompt = IngredientText(cli.ingredients),
                                  !.taskBuilt = TRUE,
                                  !.kickoffCalled = TRUE]
    /\ UNCHANGED <<arg, obj, fs>>

\* crew.kickoff() returns and suggest_recipes parses what it got
KickoffReturns ==
    /\ pc = "kickoff"
    /\ \E result \in {MkStr(s) : s \in ResponseTexts} \cup StructResponses \cup {MkObject} :
           /\ IF result = MkObject THEN obj' \in ResponseObjects ELSE obj' = BuiltinAttrs(result)
           /\ ret' = ParseKickoffResult(result)
           /\ cli' = [cli EXCEPT !.kickoffReturned = TRUE,
                                 !.result = result,
                                 !.suggestions = ParseKickoffResult(result).v]
    /\ pc' = "suggested"
    /\ UNCHANGED <<arg, fs>>

\* crew.kickoff() raises: nothing catches it
KickoffFails ==
    /\ pc = "kickoff"
    /\ ret' = Raise("Exception")
    /\ pc' = "aborted"
    /\ UNCHANGED <<arg, obj, fs, cli>>

\* normalized = normalize_output(suggestions)
NormalizeOutput ==
    /\ pc = "suggested"
    /\ LET r == normalize_output(cli.suggestions, obj)
       IN /\ ret' = r
          /\ IF r.exc = "none"
             THEN pc' = "normalized" /\ cli' = [cli EXCEPT !.normalized = r.v]
             ELSE pc' = "aborted" /\ UNCHANGED cli
    /\ UNCHANGED <<arg, obj, fs>>

\* open("outputs.json", "w"), json.dump, the confirmation line
WriteOutput ==
    /\ pc = "normalized"
    /\ LET r == JsonDump(cli.normalized)
       IN /\ ret' = r
          /\ IF r.exc = "none"
             THEN /\ pc' = "done"
                  /\ cli' = [cli EXCEPT !.outputs = [written |-> TRUE, complete |-> TRUE,
                                                     text |-> r.v.s],
                                        !.printed = TRUE]
             ELSE /\ pc' = "aborted"
                  /\ cli' = [cli EXCEPT !.outputs = [written |-> TRUE, complete |-> FALSE,
                                                     text |-> <<>>]]
    /\ UNCHANGED <<arg, obj, fs>>

NextCli ==
    \/ ReadIngredients
    \/ SuggestRecipes
    \/ KickoffReturns
    \/ KickoffFails
    \/ NormalizeOutput
    \/ WriteOutput

SpecCli == InitCli /\ [][NextCli]_vars

\* C5: once crew.kickoff() has returned, the run is never ended by an
\* exception: it goes on to write outputs.json and print the confirmation.
C5_NoAbortAfterKickoff == cli.kickoffReturned => pc # "aborted"

\* C8: a run whose ingredient list is empty never builds the task, never
\* calls crew.kickoff() and never writes outputs.json; suggest_recipes ends
\* it with the input error.
C8_EmptyNeverReachesLlm ==
    (pc # "main" /\ cli.ingredients = MkList(<<>>)) =>
        /\ ~cli.taskBuilt
        /\ ~cli.kickoffCalled
        /\ ~cli.outputs.written
        /\ ~cli.printed
        /\ pc \in {"parsed", "aborted"}
        /\ pc = "aborted" => ret = Raise("ValueError")

\* A run on the empty mapping, ended by suggest_recipes.
C8_Witness ==
    /\ pc = "aborted"
    /\ cli.mode = "file"
    /\ cli.ingredients = MkList(<<>>)
    /\ ret = Raise("ValueError")

====
